---- MODULE Spec2Model ----
(***************************************************************************)
(* A model of the document de-identification pipeline of lawer_lms_back:   *)
(*   app/services/ner_service.py        placeholder counters, the pattern  *)
(*                                      recognizer, the entity recognizer, *)
(*                                      preprocess_with_ner                *)
(*   app/services/llm_service.py        the rewriter (ollama), chunk_text, *)
(*                                      clean_text_with_ner_and_llm        *)
(*   app/services/llm_service_cloud.py  the rewriter (cloud)               *)
(*                                                                         *)
(* A text is a sequence of symbols.  A symbol is a string that stands for  *)
(* a run of characters of the real text: a blank, a line feed, a word, a   *)
(* literal one regular expression matches as a whole, a placeholder, or a  *)
(* block of ordinary prose of a given length.  The text is the plain       *)
(* concatenation of its symbols, so len(), str.replace, re.sub and         *)
(* str.split are computed on symbols as the code computes them on          *)
(* characters.                                                             *)
(***************************************************************************)
EXTENDS Naturals, Integers, Sequences, FiniteSets, TLC

(***************************************************************************)
(* Bounds of the model.                                                    *)
(***************************************************************************)
\* words per document in the single-invocation specification
MaxWords == 3
\* words per document in the two-invocation specification
MaxConcWords == 2

(***************************************************************************)
(* Symbols.                                                                *)
(***************************************************************************)
BLANK == " "
LF == "\n"
WhiteSyms == {BLANK, LF}

\* words the statistical tagger may tag (alone, or two joined by a blank)
NameSyms == {"Kim", "Ivan", "Gorod"}
\* a literal of REGEX_PATTERNS['phone'][0], +7-XXX-XXX-XX-XX, and one of
\* REGEX_PATTERNS['phone'][1], 8 XXX XXX XX XX
PhoneSyms == {"+7-701-234-56-78", "8 701 234 56 78"}
\* a literal of REGEX_PATTERNS['address'][0]: (ul.|ulitsa) <name>, (d.|dom) <n>
Addr1Syms == {"ul.Lenina,d.5"}
\* a literal of REGEX_PATTERNS['address'][1]: (pr.|prospekt) <name>, <n>
Addr2Syms == {"pr.Abaya,7"}
\* the head of REGEX_PATTERNS['address'][2]: (kv.|kvartira) \s* \d+
KvSym == "kv."
DigitSyms == {"1", "0"}
\* blocks of ordinary prose, matched by nothing
BlockSyms == {"Prose5000", "Prose7000"}

\* len() of the characters a symbol stands for
SymLen(s) ==
  CASE s = "Kim" -> 3
    [] s = "Ivan" -> 4
    [] s = "Gorod" -> 5
    [] s = "+7-701-234-56-78" -> 16
    [] s = "8 701 234 56 78" -> 15
    [] s = "ul.Lenina,d.5" -> 13
    [] s = "pr.Abaya,7" -> 10
    [] s = "kv." -> 3
    [] s \in DigitSyms -> 1
    [] s \in WhiteSyms -> 1
    [] s = "Prose5000" -> 5000
    [] s = "Prose7000" -> 7000
    [] s = "[TELEFON]" -> 9
    [] OTHER -> 9   \* a numbered placeholder "[TAG-N]"; its length decides nothing

RECURSIVE StrLen(_)
StrLen(t) == IF t = <<>> THEN 0 ELSE SymLen(Head(t)) + StrLen(Tail(t))

\* does the symbol begin / end with a character of class \w
StartsWord(s) == s \in NameSyms \cup Addr1Syms \cup Addr2Syms \cup DigitSyms
                       \cup BlockSyms \cup {KvSym, "8 701 234 56 78"}
EndsWord(s) == s \in NameSyms \cup Addr1Syms \cup Addr2Syms \cup DigitSyms
                     \cup BlockSyms \cup PhoneSyms

\* str.lower() on a one-word string
Lower(s) ==
  CASE s = "Kim" -> "kim"
    [] s = "Ivan" -> "ivan"
    [] s = "Gorod" -> "gorod"
    [] OTHER -> s

LowerStr(t) == [i \in 1..Len(t) |-> Lower(t[i])]

\* str.strip(): leading and trailing white space removed
RECURSIVE LStrip(_)
LStrip(t) == IF t # <<>> /\ Head(t) \in WhiteSyms THEN LStrip(Tail(t)) ELSE t
RECURSIVE RStrip(_)
RStrip(t) ==
  IF t # <<>> /\ t[Len(t)] \in WhiteSyms THEN RStrip(SubSeq(t, 1, Len(t) - 1)) ELSE t
Strip(t) == RStrip(LStrip(t))

\* Python's None and a present value
None == <<>>
Some(v) == <<v>>

(***************************************************************************)
(* Python dicts: insertion-ordered sequences of <<key, value>> pairs.      *)
(***************************************************************************)
DictKeys(d) == {d[i][1] : i \in 1..Len(d)}
DictHas(d, k) == k \in DictKeys(d)
DictGet(d, k) == LET i == CHOOSE j \in 1..Len(d) : d[j][1] = k IN d[i][2]
\* d[k] = v
DictPut(d, k, v) ==
  IF DictHas(d, k)
  THEN [i \in 1..Len(d) |-> IF d[i][1] = k THEN <<k, v>> ELSE d[i]]
  ELSE Append(d, <<k, v>>)
\* {**a, **b}
RECURSIVE DictMerge(_, _)
DictMerge(a, b) ==
  IF b = <<>> THEN a ELSE DictMerge(DictPut(a, Head(b)[1], Head(b)[2]), Tail(b))

(***************************************************************************)
(* Strings: matching and substitution.                                     *)
(***************************************************************************)
\* lit occurs in t at index i
OccursAt(t, lit, i) ==
  /\ i >= 1
  /\ i + Len(lit) - 1 <= Len(t)
  /\ SubSeq(t, i, i + Len(lit) - 1) = lit

\* \b holds between t[i-1] and t[i]
WordBoundary(t, i) ==
  LET before == i - 1 >= 1 /\ i - 1 <= Len(t) /\ EndsWord(t[i - 1])
      after == i >= 1 /\ i <= Len(t) /\ StartsWord(t[i])
  IN before # after

\* str.replace(lit, ph): every non-overlapping occurrence, leftmost first
RECURSIVE StrReplace(_, _, _)
StrReplace(t, lit, ph) ==
  IF t = <<>> THEN <<>>
  ELSE IF OccursAt(t, lit, 1)
       THEN <<ph>> \o StrReplace(SubSeq(t, Len(lit) + 1, Len(t)), lit, ph)
       ELSE <<Head(t)>> \o StrReplace(Tail(t), lit, ph)

\* re.sub(r'\b' + re.escape(lit) + r'\b', ph, t), scanning from index i
RECURSIVE ReSubWordFrom(_, _, _, _)
ReSubWordFrom(t, lit, ph, i) ==
  IF i > Len(t) THEN <<>>
  ELSE IF /\ OccursAt(t, lit, i)
          /\ WordBoundary(t, i)
          /\ WordBoundary(t, i + Len(lit))
       THEN <<ph>> \o ReSubWordFrom(t, lit, ph, i + Len(lit))
       ELSE <<t[i]>> \o ReSubWordFrom(t, lit, ph, i + 1)

ReSubWord(t, lit, ph) == ReSubWordFrom(t, lit, ph, 1)

(***************************************************************************)
(* ner_service.py: the global placeholder counters.  g is the record of    *)
(* the four module globals.                                                *)
(***************************************************************************)
ZeroCounters ==
  [PERSON_COUNTER |-> 0, ORG_COUNTER |-> 0, GEO_COUNTER |-> 0, ADDRESS_COUNTER |-> 0]

\* a reset that forgets the counter added last
reset_counters_but_address(g) ==
  [g EXCEPT !.PERSON_COUNTER = 0, !.ORG_COUNTER = 0, !.GEO_COUNTER = 0]

reset_counters(g) ==
  [g EXCEPT !.PERSON_COUNTER = 0, !.ORG_COUNTER = 0, !.GEO_COUNTER = 0,
            !.ADDRESS_COUNTER = 0]

\* f"[<tag>-{n}]"; the tags are the source's, transliterated
Numbered(tag, n) == "[" \o tag \o "-" \o ToString(n) \o "]"

get_person_placeholder(g) ==
  LET h == [g EXCEPT !.PERSON_COUNTER = @ + 1]
  IN [g |-> h, placeholder |-> Numbered("LITSO", h.PERSON_COUNTER)]

\* an organization numbered with the persons' counter
get_org_placeholder_person_counter(g) ==
  LET h == [g EXCEPT !.PERSON_COUNTER = @ + 1]
  IN [g |-> h, placeholder |-> Numbered("ORG", h.PERSON_COUNTER)]

get_org_placeholder(g) ==
  LET h == [g EXCEPT !.ORG_COUNTER = @ + 1]
  IN [g |-> h, placeholder |-> Numbered("ORG", h.ORG_COUNTER)]

get_geo_placeholder(g) ==
  LET h == [g EXCEPT !.GEO_COUNTER = @ + 1]
  IN [g |-> h, placeholder |-> Numbered("GEO", h.GEO_COUNTER)]

\* an address counter advanced twice for one placeholder
get_address_placeholder_skipping(g) ==
  LET h == [g EXCEPT !.ADDRESS_COUNTER = @ + 2]
  IN [g |-> h, placeholder |-> Numbered("ADRES", h.ADDRESS_COUNTER)]

get_address_placeholder(g) ==
  LET h == [g EXCEPT !.ADDRESS_COUNTER = @ + 1]
  IN [g |-> h, placeholder |-> Numbered("ADRES", h.ADDRESS_COUNTER)]

(***************************************************************************)
(* ner_service.py: replace_with_regex.                                     *)
(***************************************************************************)
\* The nine flat categories in the order of their passes, each with the
\* literals of the model's alphabet its patterns match and its placeholder.
FlatCategories ==
  << [literals |-> PhoneSyms, placeholder |-> "[TELEFON]"],
     [literals |-> {}, placeholder |-> "[EMAIL]"],
     [literals |-> {}, placeholder |-> "[INN]"],
     [literals |-> {}, placeholder |-> "[BIN]"],
     [literals |-> {}, placeholder |-> "[SNILS]"],
     [literals |-> {}, placeholder |-> "[PASPORT]"],
     [literals |-> {}, placeholder |-> "[GOSNOMER]"],
     [literals |-> {}, placeholder |-> "[SCHET]"],
     [literals |-> {}, placeholder |-> "[KARTA]"] >>

\* the n-th smallest member of a set of numbers
Nth(S, n) == CHOOSE i \in S : Cardinality({ j \in S : j < i }) = n - 1

\* for match in re.finditer(...): if match.group() not in replacements: ...
FlatRegister(t, replacements, cat) ==
  LET new == { i \in 1..Len(t) : /\ t[i] \in cat.literals
                                 /\ ~DictHas(replacements, <<t[i]>>)
                                 /\ \A j \in 1..(i - 1) : t[j] # t[i] }
  IN replacements
       \o [n \in 1..Cardinality(new) |-> << <<t[Nth(new, n)]>>, cat.placeholder >>]

\* a substitution that replaces the first match only
FlatSub_first_only(t, cat) ==
  [i \in 1..Len(t) |->
     IF t[i] \in cat.literals /\ \A j \in 1..(i - 1) : t[j] \notin cat.literals
     THEN cat.placeholder ELSE t[i]]

\* re.sub(pattern, placeholder, cleaned_text)
FlatSub(t, cat) ==
  [i \in 1..Len(t) |-> IF t[i] \in cat.literals THEN cat.placeholder ELSE t[i]]

\* the passes of lines 119-189, from category k on
RECURSIVE FlatPasses(_, _, _)
FlatPasses(t, replacements, k) ==
  IF k > Len(FlatCategories) THEN [cleaned_text |-> t, replacements |-> replacements]
  ELSE FlatPasses(FlatSub(t, FlatCategories[k]),
                  FlatRegister(t, replacements, FlatCategories[k]), k + 1)

\* number of leading symbols of t that lie in S
RECURSIVE RunLen(_, _)
RunLen(t, S) == IF t # <<>> /\ Head(t) \in S THEN 1 + RunLen(Tail(t), S) ELSE 0

\* length of the match of REGEX_PATTERNS['address'][pattern - 1] at index i
\* of t, 0 when there is none
AddressMatchLen(pattern, t, i) ==
  CASE pattern = 1 -> IF t[i] \in Addr1Syms THEN 1 ELSE 0
    [] pattern = 2 -> IF t[i] \in Addr2Syms THEN 1 ELSE 0
    [] pattern = 3 ->
         IF t[i] # KvSym THEN 0
         ELSE LET rest == SubSeq(t, i + 1, Len(t))
                  w == RunLen(rest, WhiteSyms)
                  d == RunLen(SubSeq(rest, w + 1, Len(rest)), DigitSyms)
              IN IF d >= 1 THEN 1 + w + d ELSE 0

\* [m.group() for m in re.finditer(pattern, t, re.IGNORECASE)], from index i
RECURSIVE AddressFindFrom(_, _, _)
AddressFindFrom(pattern, t, i) ==
  IF i > Len(t) THEN <<>>
  ELSE LET n == AddressMatchLen(pattern, t, i)
       IN IF n > 0
          THEN <<SubSeq(t, i, i + n - 1)>> \o AddressFindFrom(pattern, t, i + n)
          ELSE AddressFindFrom(pattern, t, i + 1)

AddressFind(pattern, t) == AddressFindFrom(pattern, t, 1)

\* len(REGEX_PATTERNS['address'])
NumAddressPatterns == 3

(***************************************************************************)
(* ner_service.py: extract_entities_with_spacy.                            *)
(***************************************************************************)
Labels == {"PER", "ORG", "LOC"}

\* doc.ents of nlp_ru(text): the statistical model is free to tag any
\* non-overlapping spans of one name or of two names joined by a blank, in
\* text order, each with any label.  An entity is [text, label_].
RECURSIVE EntsFrom(_, _)
EntsFrom(t, i) ==
  IF i > Len(t) THEN { <<>> }
  ELSE LET skip == EntsFrom(t, i + 1)
           one == IF t[i] \in NameSyms
                  THEN { <<[text |-> <<t[i]>>, label_ |-> lb]>> \o rest :
                           lb \in Labels, rest \in EntsFrom(t, i + 1) }
                  ELSE {}
           two == IF /\ i + 2 <= Len(t)
                     /\ t[i] \in NameSyms /\ t[i + 1] = BLANK /\ t[i + 2] \in NameSyms
                  THEN { <<[text |-> SubSeq(t, i, i + 2), label_ |-> lb]>> \o rest :
                           lb \in Labels, rest \in EntsFrom(t, i + 3) }
                  ELSE {}
       IN skip \cup one \cup two

Ents(t) == EntsFrom(t, 1)

GeoStoplist == { <<"gorod">>, <<"selo">>, <<"rayon">>, <<"oblast">> }

(***************************************************************************)
(* One invocation of preprocess_with_ner, as the record l of its locals    *)
(* and its position pc.  Each step below takes the locals and the globals  *)
(* g and returns both, [l |-> ..., g |-> ...].                             *)
(*   "start"     before reset_counters()                          line 292 *)
(*   "regex"     in replace_with_regex, before the flat passes    line 116 *)
(*   "address"   in the address loop of replace_with_regex        line 192 *)
(*   "spacy"     before load_spacy_models() and nlp_ru(text)      line 300 *)
(*   "entities"  in the loop over doc.ents                        line 229 *)
(*   "done"      returned                                                  *)
(***************************************************************************)
NoResult ==
  [success |-> FALSE, preprocessed_text |-> None, replacements |-> <<>>,
   stats |-> None]

NewInvocation(text) ==
  [pc |-> "start", text |-> text, cleaned_text |-> <<>>, replacements |-> <<>>,
   pattern |-> 0, matches |-> <<>>, spacy_ok |-> TRUE, doc_ents |-> <<>>,
   ents |-> <<>>, entity_map |-> <<>>, ner_replacements |-> <<>>,
   result |-> NoResult]

Idle == [pc |-> "idle"]

\* line 292
StepReset(l, g) == [l |-> [l EXCEPT !.pc = "regex"], g |-> reset_counters(g)]

\* lines 116-189, and the first re.finditer of line 193
StepRegex(l, g) ==
  LET flat == FlatPasses(l.text, <<>>, 1)
  IN [l |-> [l EXCEPT !.pc = "address",
                      !.cleaned_text = flat.cleaned_text,
                      !.replacements = flat.replacements,
                      !.pattern = 1,
                      !.matches = AddressFind(1, flat.cleaned_text)],
      g |-> g]

\* lines 192-198: one match of the current pattern, or the next pattern, or
\* the return of line 201
StepAddress(l, g) ==
  IF l.matches # <<>>
  THEN LET m == Head(l.matches)
       IN IF ~DictHas(l.replacements, m)
          THEN LET got == get_address_placeholder(g)
               IN [l |-> [l EXCEPT !.matches = Tail(@),
                                   !.replacements = DictPut(@, m, got.placeholder),
                                   !.cleaned_text = StrReplace(@, m, got.placeholder)],
                   g |-> got.g]
          ELSE [l |-> [l EXCEPT !.matches = Tail(@)], g |-> g]
  ELSE IF l.pattern < NumAddressPatterns
       THEN [l |-> [l EXCEPT !.pattern = @ + 1,
                             !.matches = AddressFind(l.pattern + 1, l.cleaned_text)],
             g |-> g]
       ELSE [l |-> [l EXCEPT !.pc = "spacy"], g |-> g]

\* lines 328-338: the except branch of preprocess_with_ner
Failed(l) == [l EXCEPT !.pc = "done", !.result = NoResult]

\* lines 300 and 223-227: load_spacy_models() raises when the model is not
\* installed (ok = FALSE); otherwise doc = nlp_ru(text) and doc.ents = ents
StepSpacy(l, g, ok, ents) ==
  IF ~ok
  THEN [l |-> [Failed(l) EXCEPT !.spacy_ok = FALSE], g |-> g]
  ELSE [l |-> [l EXCEPT !.pc = "entities", !.spacy_ok = TRUE, !.doc_ents = ents,
                        !.ents = ents, !.entity_map = <<>>,
                        !.ner_replacements = <<>>],
        g |-> g]

\* the loop body without its "if entity_text in entity_map: continue"
EntityStep_no_dedup(l, g) ==
  LET ent == Head(l.ents)
      entity_text == Strip(ent.text)
      rest == [l EXCEPT !.ents = Tail(@)]
      register(got) ==
        [l |-> [rest EXCEPT !.entity_map = DictPut(@, entity_text, got.placeholder),
                            !.ner_replacements =
                               DictPut(@, entity_text, got.placeholder)],
         g |-> got.g]
  IN IF ent.label_ = "PER" \/ ent.label_ = "PERSON"
          THEN register(get_person_placeholder(g))
     ELSE IF ent.label_ = "ORG"
          THEN register(get_org_placeholder(g))
     ELSE IF ent.label_ = "LOC" \/ ent.label_ = "GPE"
          THEN IF StrLen(entity_text) > 3 /\ LowerStr(entity_text) \notin GeoStoplist
               THEN register(get_geo_placeholder(g))
               ELSE [l |-> rest, g |-> g]
     ELSE [l |-> rest, g |-> g]

\* lines 229-258: one entity of doc.ents
EntityStep(l, g) ==
  LET ent == Head(l.ents)
      entity_text == Strip(ent.text)
      rest == [l EXCEPT !.ents = Tail(@)]
      register(got) ==
        [l |-> [rest EXCEPT !.entity_map = DictPut(@, entity_text, got.placeholder),
                            !.ner_replacements =
                               DictPut(@, entity_text, got.placeholder)],
         g |-> got.g]
  IN IF DictHas(l.entity_map, entity_text) THEN [l |-> rest, g |-> g]
     ELSE IF ent.label_ = "PER" \/ ent.label_ = "PERSON"
          THEN register(get_person_placeholder(g))
     ELSE IF ent.label_ = "ORG"
          THEN register(get_org_placeholder(g))
     ELSE IF ent.label_ = "LOC" \/ ent.label_ = "GPE"
          THEN IF StrLen(entity_text) > 3 /\ LowerStr(entity_text) \notin GeoStoplist
               THEN register(get_geo_placeholder(g))
               ELSE [l |-> rest, g |-> g]
     ELSE [l |-> rest, g |-> g]

\* lines 260-264: the replacements applied in the dict's order
RECURSIVE ApplyReplacements(_, _)
ApplyReplacements(t, replacements) ==
  IF replacements = <<>> THEN t
  ELSE ApplyReplacements(ReSubWord(t, Head(replacements)[1], Head(replacements)[2]),
                         Tail(replacements))

\* lines 260-267 and 303-326: the return of extract_entities_with_spacy and
\* of preprocess_with_ner; the stats read the globals
Finish(l, g) ==
  LET text_after_ner == ApplyReplacements(l.cleaned_text, l.ner_replacements)
      all_replacements == DictMerge(l.replacements, l.ner_replacements)
      stats == [total_replacements |-> Len(all_replacements),
                regex_replacements |-> Len(l.replacements),
                ner_replacements |-> Len(l.ner_replacements),
                persons |-> g.PERSON_COUNTER,
                organizations |-> g.ORG_COUNTER,
                locations |-> g.GEO_COUNTER,
                addresses |-> g.ADDRESS_COUNTER]
  IN [l EXCEPT !.pc = "done",
               !.result = [success |-> TRUE,
                           preprocessed_text |-> Some(text_after_ner),
                           replacements |-> all_replacements,
                           stats |-> Some(stats)]]

StepEntities(l, g) ==
  IF l.ents # <<>> THEN EntityStep(l, g) ELSE [l |-> Finish(l, g), g |-> g]

\* the step at the invocation's position; ok and ents are what the
\* statistical model does when the invocation reaches it
Step(l, g, ok, ents) ==
  CASE l.pc = "start" -> StepReset(l, g)
    [] l.pc = "regex" -> StepRegex(l, g)
    [] l.pc = "address" -> StepAddress(l, g)
    [] l.pc = "spacy" -> StepSpacy(l, g, ok, ents)
    [] l.pc = "entities" -> StepEntities(l, g)

\* the steps up to position pc, which lies before the statistical model
RECURSIVE RunUntil(_, _, _)
RunUntil(l, g, pc) ==
  IF l.pc = pc THEN [l |-> l, g |-> g]
  ELSE LET n == Step(l, g, FALSE, <<>>) IN RunUntil(n.l, n.g, pc)

RECURSIVE Run(_, _, _, _)
Run(l, g, ok, ents) ==
  IF l.pc = "done" THEN [l |-> l, g |-> g]
  ELSE LET n == Step(l, g, ok, ents) IN Run(n.l, n.g, ok, ents)

\* preprocess_with_ner(text) run from the globals g without interruption
preprocess_with_ner(text, g, ok, ents) ==
  LET r == Run(NewInvocation(text), g, ok, ents)
  IN [result |-> r.l.result, g |-> r.g]

\* replace_with_regex(text) run from the globals g: lines 111-201
replace_with_regex(text, g) ==
  LET r == RunUntil([NewInvocation(text) EXCEPT !.pc = "regex"], g, "spacy")
  IN [cleaned_text |-> r.l.cleaned_text, replacements |-> r.l.replacements, g |-> r.g]

(***************************************************************************)
(* The rewriter: llm_service.py and llm_service_cloud.py.  A prompt        *)
(* template is its instructions followed by the slot "{text}"; a request   *)
(* is the backend it goes to and the prompt it carries; a reply is what    *)
(* the backend does with one request.                                      *)
(***************************************************************************)
LLM_FINALIZATION_PROMPT == <<"FinalizationInstructions", "{text}">>
CLEANING_PROMPT == <<"CleaningInstructions", "{text}">>

\* template.format(text=text)
RECURSIVE Format(_, _)
Format(template, text) ==
  IF template = <<>> THEN <<>>
  ELSE IF Head(template) = "{text}" THEN text \o Format(Tail(template), text)
  ELSE <<Head(template)>> \o Format(Tail(template), text)

\* the texts a backend answers with: plain, padded with whitespace,
\* whitespace only, empty
ResponseTexts == { <<"Redacted">>, <<BLANK, "Redacted", LF>>, <<BLANK>>, <<>> }
Replies ==
  { [kind |-> "response", text |-> t] : t \in ResponseTexts }
    \cup { [kind |-> k, text |-> <<>>] : k \in {"connection", "timeout", "http"} }

\* the reply to the i-th request; a backend that has failed keeps failing
ReplyAt(replies, i) ==
  IF i <= Len(replies) THEN replies[i] ELSE replies[Len(replies)]

\* the result dicts of a rewriter call
LlmSuccess(text, cleaned_text) ==
  [cleaned_text |-> Some(Strip(cleaned_text)),
   original_length |-> StrLen(text),
   cleaned_length |-> StrLen(Strip(cleaned_text)),
   success |-> TRUE,
   error |-> None]

\* a failure result whose error says nothing
LlmFailure_no_message(text, error_msg) ==
  [cleaned_text |-> None,
   original_length |-> StrLen(text),
   cleaned_length |-> 0,
   success |-> FALSE,
   error |-> Some("")]

LlmFailure(text, error_msg) ==
  [cleaned_text |-> None,
   original_length |-> StrLen(text),
   cleaned_length |-> 0,
   success |-> FALSE,
   error |-> Some(error_msg)]

\* llm_service.py lines 182-283; the prompt is built from CLEANING_PROMPT
clean_text_with_ollama(text, reply) ==
  [sent |-> << [backend |-> "ollama", prompt |-> Format(CLEANING_PROMPT, text)] >>,
   result |->
     CASE reply.kind = "response" /\ reply.text # <<>> -> LlmSuccess(text, reply.text)
       [] reply.kind = "response" /\ reply.text = <<>> ->
            LlmFailure(text, "Error during text cleaning: Ollama returned empty response")
       [] reply.kind = "connection" ->
            LlmFailure(text, "Failed to connect to Ollama. Is Ollama running?")
       [] reply.kind = "timeout" ->
            LlmFailure(text, "Request to Ollama timed out. Try with a shorter text or increase timeout.")
       [] reply.kind = "http" ->
            LlmFailure(text, "Error during text cleaning: HTTP error")]

\* a remote call that reports every failure in the same words
clean_text_with_cloud_llm_one_error(text, prompt, reply) ==
  [sent |-> << [backend |-> "cloud", prompt |-> Format(prompt, text)] >>,
   result |->
     IF reply.kind = "response" /\ reply.text # <<>>
     THEN LlmSuccess(text, reply.text)
     ELSE LlmFailure(text, "Error during cloud LLM text cleaning")]

\* llm_service_cloud.py lines 8-97
clean_text_with_cloud_llm(text, prompt, reply) ==
  [sent |-> << [backend |-> "cloud", prompt |-> Format(prompt, text)] >>,
   result |->
     CASE reply.kind = "response" /\ reply.text # <<>> -> LlmSuccess(text, reply.text)
       [] reply.kind = "response" /\ reply.text = <<>> ->
            LlmFailure(text, "Error during cloud LLM text cleaning: Cloud LLM returned empty response")
       [] reply.kind = "connection" ->
            LlmFailure(text, "Error during cloud LLM text cleaning: Connection error.")
       [] reply.kind = "timeout" ->
            LlmFailure(text, "Error during cloud LLM text cleaning: Request timed out.")
       [] reply.kind = "http" ->
            LlmFailure(text, "Error during cloud LLM text cleaning: HTTP error")]

\* text.split("\n\n"), cur being the piece read so far
RECURSIVE SplitParagraphs(_, _)
SplitParagraphs(t, cur) ==
  IF t = <<>> THEN <<cur>>
  ELSE IF Len(t) >= 2 /\ t[1] = LF /\ t[2] = LF
       THEN <<cur>> \o SplitParagraphs(SubSeq(t, 3, Len(t)), <<>>)
       ELSE SplitParagraphs(Tail(t), Append(cur, Head(t)))

\* a loop that starts the next chunk with the paragraph written twice
RECURSIVE ChunkLoop_repeats(_, _, _, _)
ChunkLoop_repeats(paragraphs, current_chunk, chunks, max_chunk_size) ==
  IF paragraphs = <<>>
  THEN IF current_chunk # <<>> THEN Append(chunks, Strip(current_chunk)) ELSE chunks
  ELSE LET paragraph == Head(paragraphs)
       IN IF StrLen(current_chunk) + StrLen(paragraph) <= max_chunk_size
          THEN ChunkLoop_repeats(Tail(paragraphs), current_chunk \o paragraph \o <<LF, LF>>,
                                 chunks, max_chunk_size)
          ELSE ChunkLoop_repeats(Tail(paragraphs), paragraph \o paragraph \o <<LF, LF>>,
                                 IF current_chunk # <<>>
                                 THEN Append(chunks, Strip(current_chunk)) ELSE chunks,
                                 max_chunk_size)

\* a loop that puts every paragraph in the one chunk
RECURSIVE ChunkLoop_one_chunk(_, _, _, _)
ChunkLoop_one_chunk(paragraphs, current_chunk, chunks, max_chunk_size) ==
  IF paragraphs = <<>>
  THEN IF current_chunk # <<>> THEN Append(chunks, Strip(current_chunk)) ELSE chunks
  ELSE ChunkLoop_one_chunk(Tail(paragraphs), current_chunk \o Head(paragraphs) \o <<LF, LF>>,
                           chunks, max_chunk_size)

\* a loop that starts the next chunk empty, without the paragraph that did
\* not fit
RECURSIVE ChunkLoop_drops(_, _, _, _)
ChunkLoop_drops(paragraphs, current_chunk, chunks, max_chunk_size) ==
  IF paragraphs = <<>>
  THEN IF current_chunk # <<>> THEN Append(chunks, Strip(current_chunk)) ELSE chunks
  ELSE LET paragraph == Head(paragraphs)
       IN IF StrLen(current_chunk) + StrLen(paragraph) <= max_chunk_size
          THEN ChunkLoop_drops(Tail(paragraphs), current_chunk \o paragraph \o <<LF, LF>>,
                               chunks, max_chunk_size)
          ELSE ChunkLoop_drops(Tail(paragraphs), <<>>,
                               IF current_chunk # <<>>
                               THEN Append(chunks, Strip(current_chunk)) ELSE chunks,
                               max_chunk_size)

\* a loop that adds a paragraph whenever the chunk so far fits, whatever the
\* length of the paragraph
RECURSIVE ChunkLoop_merges(_, _, _, _)
ChunkLoop_merges(paragraphs, current_chunk, chunks, max_chunk_size) ==
  IF paragraphs = <<>>
  THEN IF current_chunk # <<>> THEN Append(chunks, Strip(current_chunk)) ELSE chunks
  ELSE LET paragraph == Head(paragraphs)
       IN IF StrLen(current_chunk) <= max_chunk_size
          THEN ChunkLoop_merges(Tail(paragraphs), current_chunk \o paragraph \o <<LF, LF>>,
                                chunks, max_chunk_size)
          ELSE ChunkLoop_merges(Tail(paragraphs), paragraph \o <<LF, LF>>,
                                IF current_chunk # <<>>
                                THEN Append(chunks, Strip(current_chunk)) ELSE chunks,
                                max_chunk_size)

\* llm_service.py lines 352-361: the loop over the paragraphs and the last
\* chunk
RECURSIVE ChunkLoop(_, _, _, _)
ChunkLoop(paragraphs, current_chunk, chunks, max_chunk_size) ==
  IF paragraphs = <<>>
  THEN IF current_chunk # <<>> THEN Append(chunks, Strip(current_chunk)) ELSE chunks
  ELSE LET paragraph == Head(paragraphs)
       IN IF StrLen(current_chunk) + StrLen(paragraph) <= max_chunk_size
          THEN ChunkLoop(Tail(paragraphs), current_chunk \o paragraph \o <<LF, LF>>,
                         chunks, max_chunk_size)
          ELSE ChunkLoop(Tail(paragraphs), paragraph \o <<LF, LF>>,
                         IF current_chunk # <<>>
                         THEN Append(chunks, Strip(current_chunk)) ELSE chunks,
                         max_chunk_size)

\* a chunker that strips the text it does not split
chunk_text_strips_short(text, max_chunk_size) ==
  IF StrLen(text) <= max_chunk_size THEN <<Strip(text)>>
  ELSE ChunkLoop(SplitParagraphs(text, <<>>), <<>>, <<>>, max_chunk_size)

\* llm_service.py lines 332-364
chunk_text(text, max_chunk_size) ==
  IF StrLen(text) <= max_chunk_size THEN <<text>>
  ELSE ChunkLoop(SplitParagraphs(text, <<>>), <<>>, <<>>, max_chunk_size)

\* "\n\n".join(parts)
RECURSIVE Join(_)
Join(parts) ==
  IF parts = <<>> THEN <<>>
  ELSE IF Len(parts) = 1 THEN parts[1]
  ELSE parts[1] \o <<LF, LF>> \o Join(Tail(parts))

\* a loop that puts the cleaned text of a chunk before those it has
RECURSIVE OllamaChunks_prepends(_, _, _, _)
OllamaChunks_prepends(chunks, replies, i, acc) ==
  IF i > Len(chunks)
  THEN [sent |-> acc.sent,
        result |-> [cleaned_text |-> Some(Join(acc.cleaned_chunks)),
                    original_length |-> acc.total_original_length,
                    cleaned_length |-> acc.total_cleaned_length,
                    success |-> TRUE,
                    error |-> None,
                    chunks_processed |-> Len(chunks)]]
  ELSE LET call == clean_text_with_ollama(chunks[i], ReplyAt(replies, i))
       IN IF ~call.result.success
          THEN [sent |-> acc.sent \o call.sent, result |-> call.result]
          ELSE OllamaChunks_prepends(chunks, replies, i + 1,
                 [sent |-> acc.sent \o call.sent,
                  cleaned_chunks |-> <<call.result.cleaned_text[1]>> \o acc.cleaned_chunks,
                  total_original_length |->
                     acc.total_original_length + call.result.original_length,
                  total_cleaned_length |->
                     acc.total_cleaned_length + call.result.cleaned_length])

\* a loop that sends a chunk a second time when its rewrite has failed
RECURSIVE OllamaChunks_retries(_, _, _, _)
OllamaChunks_retries(chunks, replies, i, acc) ==
  IF i > Len(chunks)
  THEN [sent |-> acc.sent,
        result |-> [cleaned_text |-> Some(Join(acc.cleaned_chunks)),
                    original_length |-> acc.total_original_length,
                    cleaned_length |-> acc.total_cleaned_length,
                    success |-> TRUE,
                    error |-> None,
                    chunks_processed |-> Len(chunks)]]
  ELSE LET call == clean_text_with_ollama(chunks[i], ReplyAt(replies, i))
       IN IF ~call.result.success
          THEN [sent |-> acc.sent \o call.sent \o call.sent, result |-> call.result]
          ELSE OllamaChunks_retries(chunks, replies, i + 1,
                 [sent |-> acc.sent \o call.sent,
                  cleaned_chunks |-> Append(acc.cleaned_chunks, call.result.cleaned_text[1]),
                  total_original_length |->
                     acc.total_original_length + call.result.original_length,
                  total_cleaned_length |->
                     acc.total_cleaned_length + call.result.cleaned_length])

\* llm_service.py lines 398-424: the loop from chunk i on
RECURSIVE OllamaChunks(_, _, _, _)
OllamaChunks(chunks, replies, i, acc) ==
  IF i > Len(chunks)
  THEN [sent |-> acc.sent,
        result |-> [cleaned_text |-> Some(Join(acc.cleaned_chunks)),
                    original_length |-> acc.total_original_length,
                    cleaned_length |-> acc.total_cleaned_length,
                    success |-> TRUE,
                    error |-> None,
                    chunks_processed |-> Len(chunks)]]
  ELSE LET call == clean_text_with_ollama(chunks[i], ReplyAt(replies, i))
       IN IF ~call.result.success
          THEN [sent |-> acc.sent \o call.sent, result |-> call.result]
          ELSE OllamaChunks(chunks, replies, i + 1,
                 [sent |-> acc.sent \o call.sent,
                  cleaned_chunks |-> Append(acc.cleaned_chunks, call.result.cleaned_text[1]),
                  total_original_length |->
                     acc.total_original_length + call.result.original_length,
                  total_cleaned_length |->
                     acc.total_cleaned_length + call.result.cleaned_length])

\* llm_service.py lines 367-437
clean_large_text_with_ollama(text, replies, max_chunk_size) ==
  LET chunks == chunk_text(text, max_chunk_size)
  IN IF Len(chunks) = 1
     THEN clean_text_with_ollama(text, ReplyAt(replies, 1))
     ELSE OllamaChunks(chunks, replies, 1,
            [sent |-> <<>>, cleaned_chunks |-> <<>>,
             total_original_length |-> 0, total_cleaned_length |-> 0])

\* a loop that leaves a failed chunk out and goes on with the next
RECURSIVE CloudChunks_keeps_going(_, _, _, _, _)
CloudChunks_keeps_going(chunks, prompt, replies, i, acc) ==
  IF i > Len(chunks)
  THEN [sent |-> acc.sent,
        result |-> [cleaned_text |-> Some(Join(acc.cleaned_chunks)),
                    original_length |-> acc.total_original_length,
                    cleaned_length |-> acc.total_cleaned_length,
                    success |-> TRUE,
                    error |-> None,
                    chunks_processed |-> Len(chunks)]]
  ELSE LET call == clean_text_with_cloud_llm(chunks[i], prompt, ReplyAt(replies, i))
       IN IF ~call.result.success
          THEN CloudChunks_keeps_going(chunks, prompt, replies, i + 1,
                 [acc EXCEPT !.sent = acc.sent \o call.sent])
          ELSE CloudChunks_keeps_going(chunks, prompt, replies, i + 1,
                 [sent |-> acc.sent \o call.sent,
                  cleaned_chunks |-> Append(acc.cleaned_chunks, call.result.cleaned_text[1]),
                  total_original_length |->
                     acc.total_original_length + call.result.original_length,
                  total_cleaned_length |->
                     acc.total_cleaned_length + call.result.cleaned_length])

\* llm_service_cloud.py lines 189-203: the loop from chunk i on
RECURSIVE CloudChunks(_, _, _, _, _)
CloudChunks(chunks, prompt, replies, i, acc) ==
  IF i > Len(chunks)
  THEN [sent |-> acc.sent,
        result |-> [cleaned_text |-> Some(Join(acc.cleaned_chunks)),
                    original_length |-> acc.total_original_length,
                    cleaned_length |-> acc.total_cleaned_length,
                    success |-> TRUE,
                    error |-> None,
                    chunks_processed |-> Len(chunks)]]
  ELSE LET call == clean_text_with_cloud_llm(chunks[i], prompt, ReplyAt(replies, i))
       IN IF ~call.result.success
          THEN [sent |-> acc.sent \o call.sent, result |-> call.result]
          ELSE CloudChunks(chunks, prompt, replies, i + 1,
                 [sent |-> acc.sent \o call.sent,
                  cleaned_chunks |-> Append(acc.cleaned_chunks, call.result.cleaned_text[1]),
                  total_original_length |->
                     acc.total_original_length + call.result.original_length,
                  total_cleaned_length |->
                     acc.total_cleaned_length + call.result.cleaned_length])

\* llm_service_cloud.py lines 149-225
clean_large_text_with_cloud_llm(text, prompt, replies, max_chunk_size) ==
  LET chunks == chunk_text(text, max_chunk_size)
  IN IF Len(chunks) = 1
     THEN clean_text_with_cloud_llm(text, prompt, ReplyAt(replies, 1))
     ELSE CloudChunks(chunks, prompt, replies, 1,
            [sent |-> <<>>, cleaned_chunks |-> <<>>,
             total_original_length |-> 0, total_cleaned_length |-> 0])

\* the length above which the orchestrator has the local backend chunk
OllamaThreshold == 8000
\* max_chunk_size of clean_large_text_with_ollama when it is not passed
OllamaMaxChunkSize == 8000
\* the length above which clean_text_with_llm has the remote backend chunk
CloudThreshold == 12000

\* max_chunk_size of clean_large_text_with_cloud_llm when it is not passed
CloudMaxChunkSize == 12000

Providers == {"ollama", "cloud"}

\* llm_service.py lines 444-498: the rewriter behind one interface
clean_text_with_llm(text, provider, has_credentials, replies) ==
  IF provider = "ollama"
  THEN IF StrLen(text) > OllamaThreshold
       THEN clean_large_text_with_ollama(text, replies, OllamaMaxChunkSize)
       ELSE clean_text_with_ollama(text, ReplyAt(replies, 1))
  ELSE IF ~has_credentials
       THEN [sent |-> <<>>,
             result |-> LlmFailure(text, "base_url and api_key are required for cloud providers")]
       ELSE IF StrLen(text) > CloudThreshold
            THEN clean_large_text_with_cloud_llm(text, CLEANING_PROMPT, replies,
                                                 CloudMaxChunkSize)
            ELSE clean_text_with_cloud_llm(text, CLEANING_PROMPT, ReplyAt(replies, 1))

\* llm_service.py lines 575-593: the preprocessing stage.  ok, ents: what
\* the statistical model does
NerStage(text, use_ner, g, ok, ents) ==
  IF use_ner THEN preprocess_with_ner(text, g, ok, ents)
  ELSE [result |-> NoResult, g |-> g]

\* llm_service.py lines 580-676: what follows the call of preprocess_with_ner,
\* ner_result being what it returned and the globals it left.
\* has_credentials: base_url and api_key are both given; replies: what the
\* backend does with the successive requests
LlmStage(text, provider, has_credentials, use_ner, ner_result, replies) ==
  LET ner_ok == use_ner /\ ner_result.result.success
      preprocessed_text == IF ner_ok THEN ner_result.result.preprocessed_text[1] ELSE text
      ner_stats == IF ner_ok THEN ner_result.result.stats[1] ELSE <<>>
      prompt_template == IF use_ner THEN LLM_FINALIZATION_PROMPT ELSE CLEANING_PROMPT
      failure(error) ==
        [cleaned_text |-> None,
         original_length |-> StrLen(text),
         cleaned_length |-> 0,
         success |-> FALSE,
         error |-> error,
         ner_stats |-> ner_stats]
      finish(llm) ==
        [g |-> ner_result.g,
         preprocessed_text |-> preprocessed_text,
         sent |-> llm.sent,
         result |->
           IF ~llm.result.success THEN failure(llm.result.error)
           ELSE [cleaned_text |-> llm.result.cleaned_text,
                 original_text |-> text,
                 preprocessed_text |-> IF use_ner THEN Some(preprocessed_text) ELSE None,
                 original_length |-> StrLen(text),
                 cleaned_length |-> StrLen(llm.result.cleaned_text[1]),
                 success |-> TRUE,
                 error |-> None,
                 ner_stats |-> ner_stats,
                 pipeline_used |-> IF use_ner THEN "NER + LLM" ELSE "LLM Only"]]
  IN IF provider = "ollama"
     THEN IF StrLen(preprocessed_text) > OllamaThreshold
          THEN finish(clean_large_text_with_ollama(preprocessed_text, replies,
                                                   OllamaMaxChunkSize))
          ELSE finish(clean_text_with_ollama(preprocessed_text, ReplyAt(replies, 1)))
     ELSE IF ~has_credentials
          THEN [g |-> ner_result.g,
                preprocessed_text |-> preprocessed_text,
                sent |-> <<>>,
                result |-> failure(Some("base_url and api_key are required for cloud providers"))]
          ELSE finish(clean_text_with_cloud_llm(preprocessed_text, prompt_template,
                                                ReplyAt(replies, 1)))

\* llm_service.py lines 546-676
clean_text_with_ner_and_llm(text, provider, has_credentials, use_ner, g, ok, ents, replies) ==
  LlmStage(text, provider, has_credentials, use_ner,
           NerStage(text, use_ner, g, ok, ents), replies)

(***************************************************************************)
(* pdf_service.py.  A PDF is what PdfReader makes of it: unreadable, or    *)
(* the text of its page.                                                   *)
(***************************************************************************)
\* pdf_service.py lines 17-72: extract_text_from_pdf through a temporary
\* file; the text of the page, a line feed after it, stripped
extract_text_from_bytes(pdf) ==
  IF ~pdf.readable
  THEN [raised |-> TRUE, text |-> <<>>,
        error |-> "Failed to extract text from PDF bytes: Failed to extract text from PDF: unreadable"]
  ELSE [raised |-> FALSE, text |-> Strip(pdf.content \o <<LF>>), error |-> ""]

\* pdf_service.py lines 178-189: the result of the except branch
PdfFailure(error) ==
  [original_text |-> None,
   cleaned_text |-> None,
   original_length |-> 0,
   cleaned_length |-> 0,
   success |-> FALSE,
   error |-> Some("Failed to process PDF: " \o error)]

\* pdf_service.py lines 143-176: what follows the call of
\* clean_text_with_ner_and_llm, call being what it returned and left
PdfStage(original_text, use_ner, call) ==
  [g |-> call.g,
   sent |-> call.sent,
   cleaning |-> Some(call.result),
   result |->
     IF ~call.result.success
     THEN [original_text |-> Some(original_text),
           cleaned_text |-> None,
           preprocessed_text |-> None,
           original_length |-> StrLen(original_text),
           cleaned_length |-> 0,
           ner_stats |-> call.result.ner_stats,
           pipeline_used |-> IF use_ner THEN "NER + LLM" ELSE "LLM only",
           success |-> FALSE,
           error |-> call.result.error]
     ELSE [original_text |-> Some(original_text),
           cleaned_text |-> call.result.cleaned_text,
           preprocessed_text |-> call.result.preprocessed_text,
           original_length |-> StrLen(original_text),
           cleaned_length |-> StrLen(call.result.cleaned_text[1]),
           ner_stats |-> call.result.ner_stats,
           pipeline_used |-> call.result.pipeline_used,
           success |-> TRUE,
           error |-> None]]

\* pdf_service.py lines 77-189
process_pdf_with_llm(pdf, provider, has_credentials, use_ner, g, ok, ents, replies) ==
  LET extracted == extract_text_from_bytes(pdf)
  IN IF extracted.raised
     THEN [g |-> g, sent |-> <<>>, cleaning |-> None,
           result |-> PdfFailure(extracted.error)]
     ELSE IF extracted.text = <<>> \/ StrLen(Strip(extracted.text)) = 0
          THEN [g |-> g, sent |-> <<>>, cleaning |-> None,
                result |-> PdfFailure("No text could be extracted from the PDF. The file might be empty or contain only images.")]
          ELSE PdfStage(extracted.text, use_ner,
                        clean_text_with_ner_and_llm(extracted.text, provider, has_credentials,
                                                    use_ner, g, ok, ents, replies))

(***************************************************************************)
(* Documents.                                                              *)
(***************************************************************************)
\* the words written one after another, a blank between two words except
\* between two digits (which form one number)
RECURSIVE Render(_)
Render(ws) ==
  IF Len(ws) <= 1 THEN ws
  ELSE IF ws[1] \in DigitSyms /\ ws[2] \in DigitSyms
       THEN <<ws[1]>> \o Render(Tail(ws))
       ELSE <<ws[1], BLANK>> \o Render(Tail(ws))

DocsOf(words, n) == { Render(ws) : ws \in UNION { [1..k -> words] : k \in 0..n } }

Words ==
  NameSyms \cup {"+7-701-234-56-78"} \cup Addr1Syms \cup Addr2Syms \cup {KvSym, "1"}
Docs == DocsOf(Words, MaxWords)

ConcWords == {"Kim", "ul.Lenina,d.5"}
ConcDocs == DocsOf(ConcWords, MaxConcWords)

\* the documents of the pipeline: paragraphs with a blank line between them
MaxParagraphs == 3
Paragraphs ==
  { <<"Prose5000">>, <<"Ivan", BLANK, "+7-701-234-56-78">>, <<>> }
PipeDocs == { Join(ps) : ps \in UNION { [1..k -> Paragraphs] : k \in 1..MaxParagraphs } }

\* what a backend does with n successive requests, up to its first failure
RECURSIVE ReplySeqs(_)
ReplySeqs(n) ==
  IF n = 0 THEN { <<>> }
  ELSE UNION { IF r.kind = "response" /\ r.text # <<>>
               THEN { <<r>> \o rest : rest \in ReplySeqs(n - 1) }
               ELSE { <<r>> } : r \in Replies }

\* the uploaded files: one PdfReader cannot read, and one page of each text
Pdfs ==
  { [readable |-> FALSE, content |-> <<>>] }
    \cup { [readable |-> TRUE, content |-> d] : d \in PipeDocs }

\* the documents of the pattern stage: phones of two patterns, a street
\* address, apartments of one digit and of two
MaxRegexWords == 5
RegexWords == PhoneSyms \cup Addr1Syms \cup {KvSym} \cup DigitSyms
RegexDocs == DocsOf(RegexWords, MaxRegexWords)
\* calls of replace_with_regex follow one another until the address counter
\* has come this far
MaxAddressCounter == 2

\* the inputs of chunk_text: every text of a character, blanks and line
\* feeds up to a length, and every max_chunk_size up to a size
MaxChunkSyms == 7
MaxSize == 5
ChunkSyms == {"1", BLANK, LF}
ChunkDocs == UNION { [1..k -> ChunkSyms] : k \in 0..MaxChunkSyms }
ChunkSizes == 0..MaxSize

(***************************************************************************)
(* State.                                                                  *)
(***************************************************************************)
VARIABLES
  PERSON_COUNTER,    \* ner_service.py globals
  ORG_COUNTER,
  GEO_COUNTER,
  ADDRESS_COUNTER,
  inv,               \* the invocations of preprocess_with_ner, by thread
  stale,             \* history: the call in progress found counters left
                     \* over from an earlier call (until its recognition runs)
  job                \* the call of clean_text_with_ner_and_llm and its outcome

vars == <<PERSON_COUNTER, ORG_COUNTER, GEO_COUNTER, ADDRESS_COUNTER, inv, stale, job>>

Threads == {1, 2}

Globals ==
  [PERSON_COUNTER |-> PERSON_COUNTER, ORG_COUNTER |-> ORG_COUNTER,
   GEO_COUNTER |-> GEO_COUNTER, ADDRESS_COUNTER |-> ADDRESS_COUNTER]

SetGlobals(g) ==
  /\ PERSON_COUNTER' = g.PERSON_COUNTER
  /\ ORG_COUNTER' = g.ORG_COUNTER
  /\ GEO_COUNTER' = g.GEO_COUNTER
  /\ ADDRESS_COUNTER' = g.ADDRESS_COUNTER

\* the module as imported: lines 13-16
Init ==
  /\ PERSON_COUNTER = 0
  /\ ORG_COUNTER = 0
  /\ GEO_COUNTER = 0
  /\ ADDRESS_COUNTER = 0
  /\ inv = [p \in Threads |-> Idle]
  /\ stale = FALSE
  /\ job = Idle

(***************************************************************************)
(* Actions: thread p calls preprocess_with_ner, takes its steps, returns.  *)
(***************************************************************************)
Call(p, docs) ==
  /\ inv[p].pc = "idle"
  /\ \E text \in docs : inv' = [inv EXCEPT ![p] = NewInvocation(text)]
  /\ UNCHANGED <<PERSON_COUNTER, ORG_COUNTER, GEO_COUNTER, ADDRESS_COUNTER, stale, job>>

Advance(p, n) ==
  /\ inv' = [inv EXCEPT ![p] = n.l]
  /\ SetGlobals(n.g)

Reset(p) ==
  /\ inv[p].pc = "start"
  /\ Advance(p, StepReset(inv[p], Globals))
  /\ UNCHANGED <<stale, job>>

Regex(p) ==
  /\ inv[p].pc = "regex"
  /\ Advance(p, StepRegex(inv[p], Globals))
  /\ UNCHANGED <<stale, job>>

Address(p) ==
  /\ inv[p].pc = "address"
  /\ Advance(p, StepAddress(inv[p], Globals))
  /\ UNCHANGED <<stale, job>>

Spacy(p) ==
  /\ inv[p].pc = "spacy"
  /\ \E ok \in BOOLEAN :
       \E ents \in (IF ok THEN Ents(inv[p].cleaned_text) ELSE { <<>> }) :
         Advance(p, StepSpacy(inv[p], Globals, ok, ents))
  /\ UNCHANGED <<stale, job>>

Entities(p) ==
  /\ inv[p].pc = "entities"
  /\ Advance(p, StepEntities(inv[p], Globals))
  /\ UNCHANGED <<stale, job>>

Return(p) ==
  /\ inv[p].pc = "done"
  /\ inv' = [inv EXCEPT ![p] = Idle]
  /\ UNCHANGED <<PERSON_COUNTER, ORG_COUNTER, GEO_COUNTER, ADDRESS_COUNTER, stale, job>>

\* lines 289-292 without interruption: the call and its reset_counters()
Enter(p, docs) ==
  /\ inv[p].pc = "idle"
  /\ \E text \in docs : Advance(p, StepReset(NewInvocation(text), Globals))
  /\ stale' = (Globals # ZeroCounters)
  /\ UNCHANGED job

\* lines 294-326 without interruption: everything after reset_counters()
Recognize(p) ==
  /\ inv[p].pc = "regex"
  /\ LET regex == RunUntil(inv[p], Globals, "spacy")
     IN \E ok \in BOOLEAN :
          \E ents \in (IF ok THEN Ents(regex.l.cleaned_text) ELSE { <<>> }) :
            Advance(p, Run(regex.l, regex.g, ok, ents))
  /\ stale' = FALSE
  /\ UNCHANGED job

\* one thread: the calls follow one another
Next ==
  \/ Enter(1, Docs)
  \/ Recognize(1)
  \/ Return(1)

Spec == Init /\ [][Next]_vars

\* two threads: the steps of two calls interleave
NextConc ==
  \E p \in Threads :
    \/ Call(p, ConcDocs)
    \/ Reset(p)
    \/ Regex(p)
    \/ Address(p)
    \/ Spacy(p)
    \/ Entities(p)
    \/ Return(p)

SpecConc == Init /\ [][NextConc]_vars

(***************************************************************************)
(* Actions: a caller runs clean_text_with_ner_and_llm on a document and    *)
(* collects the result.                                                    *)
(***************************************************************************)
Clean ==
  /\ job.pc = "idle"
  /\ \E text \in PipeDocs, provider \in Providers, use_ner \in BOOLEAN :
       \E has_credentials \in (IF provider = "ollama" THEN {FALSE} ELSE BOOLEAN),
          ok \in (IF use_ner THEN BOOLEAN ELSE {TRUE}) :
         \E ents \in (IF use_ner /\ ok
                      THEN Ents(replace_with_regex(text, ZeroCounters).cleaned_text)
                      ELSE { <<>> }) :
           LET call(replies) ==
                 clean_text_with_ner_and_llm(text, provider, has_credentials,
                                             use_ner, Globals, ok, ents, replies)
               \* the requests of the call when every one of them is answered
               n == Len(call(<< [kind |-> "response", text |-> <<"Redacted">>] >>).sent)
           IN \E replies \in ReplySeqs(n) :
                LET r == call(replies)
                IN /\ job' = [pc |-> "returned", text |-> text, provider |-> provider,
                              has_credentials |-> has_credentials, use_ner |-> use_ner,
                              spacy_ok |-> ok, preprocessed_text |-> r.preprocessed_text,
                              sent |-> r.sent, result |-> r.result]
                   /\ SetGlobals(r.g)
  /\ UNCHANGED <<inv, stale>>

Collect ==
  /\ job.pc = "returned"
  /\ job' = Idle
  /\ UNCHANGED <<PERSON_COUNTER, ORG_COUNTER, GEO_COUNTER, ADDRESS_COUNTER, inv, stale>>

NextPipe == Clean \/ Collect

SpecPipe == Init /\ [][NextPipe]_vars

(***************************************************************************)
(* Actions: a caller runs clean_text_with_llm on a document and collects   *)
(* the result.                                                             *)
(***************************************************************************)
\* the chunks clean_text_with_llm has the backend of the provider rewrite
ChunksFor(text, provider) ==
  IF provider = "ollama"
  THEN IF StrLen(text) > OllamaThreshold
       THEN chunk_text(text, OllamaMaxChunkSize) ELSE <<text>>
  ELSE IF StrLen(text) > CloudThreshold
       THEN chunk_text(text, CloudMaxChunkSize) ELSE <<text>>

Rewrite ==
  /\ job.pc = "idle"
  /\ \E text \in PipeDocs, provider \in Providers :
       \E has_credentials \in (IF provider = "ollama" THEN {FALSE} ELSE BOOLEAN) :
         LET chunks == ChunksFor(text, provider)
         IN \E replies \in ReplySeqs(Len(chunks)) :
              LET r == clean_text_with_llm(text, provider, has_credentials, replies)
              IN job' = [pc |-> "returned", text |-> text, provider |-> provider,
                         has_credentials |-> has_credentials, chunks |-> chunks,
                         replies |-> replies, sent |-> r.sent, result |-> r.result]
  /\ UNCHANGED <<PERSON_COUNTER, ORG_COUNTER, GEO_COUNTER, ADDRESS_COUNTER, inv, stale>>

NextLlm == Rewrite \/ Collect

SpecLlm == Init /\ [][NextLlm]_vars

(***************************************************************************)
(* Actions: a caller runs process_pdf_with_llm on an uploaded file and     *)
(* collects the result.                                                    *)
(***************************************************************************)
Process ==
  /\ job.pc = "idle"
  /\ \E pdf \in Pdfs, provider \in Providers, use_ner \in BOOLEAN :
       \E has_credentials \in (IF provider = "ollama" THEN {FALSE} ELSE BOOLEAN),
          ok \in (IF use_ner THEN BOOLEAN ELSE {TRUE}) :
         \E ents \in (IF use_ner /\ ok
                      THEN Ents(replace_with_regex(extract_text_from_bytes(pdf).text,
                                                   ZeroCounters).cleaned_text)
                      ELSE { <<>> }) :
           LET call(replies) ==
                 process_pdf_with_llm(pdf, provider, has_credentials, use_ner,
                                      Globals, ok, ents, replies)
               \* the requests of the call when every one of them is answered
               n == Len(call(<< [kind |-> "response", text |-> <<"Redacted">>] >>).sent)
           IN \E replies \in ReplySeqs(n) :
                LET r == call(replies)
                IN /\ job' = [pc |-> "returned", pdf |-> pdf, provider |-> provider,
                              has_credentials |-> has_credentials, use_ner |-> use_ner,
                              spacy_ok |-> ok, replies |-> replies, sent |-> r.sent,
                              cleaning |-> r.cleaning, result |-> r.result]
                   /\ SetGlobals(r.g)
  /\ UNCHANGED <<inv, stale>>

NextPdf == Process \/ Collect

SpecPdf == Init /\ [][NextPdf]_vars

(***************************************************************************)
(* Actions: a caller runs replace_with_regex on a document, on its own     *)
(* (without the reset_counters() of preprocess_with_ner), and collects the *)
(* pair it returns.                                                        *)
(***************************************************************************)
Match ==
  /\ job.pc = "idle"
  /\ ADDRESS_COUNTER < MaxAddressCounter
  /\ \E text \in RegexDocs :
       LET r == replace_with_regex(text, Globals)
       IN /\ job' = [pc |-> "returned", text |-> text, globals_before |-> Globals,
                     cleaned_text |-> r.cleaned_text, replacements |-> r.replacements]
          /\ SetGlobals(r.g)
  /\ UNCHANGED <<inv, stale>>

NextRegex == Match \/ Collect

SpecRegex == Init /\ [][NextRegex]_vars

(***************************************************************************)
(* chunk_text on its own: a text and a max_chunk_size are given, and the   *)
(* function is applied to them.                                            *)
(***************************************************************************)
InitChunk ==
  /\ PERSON_COUNTER = 0
  /\ ORG_COUNTER = 0
  /\ GEO_COUNTER = 0
  /\ ADDRESS_COUNTER = 0
  /\ inv = [p \in Threads |-> Idle]
  /\ stale = FALSE
  /\ job \in { [pc |-> "input", text |-> text, max_chunk_size |-> max_chunk_size] :
                 text \in ChunkDocs, max_chunk_size \in ChunkSizes }

Chunk ==
  /\ job.pc = "input"
  /\ job' = [pc |-> "returned", text |-> job.text, max_chunk_size |-> job.max_chunk_size,
             chunks |-> chunk_text(job.text, job.max_chunk_size)]
  /\ UNCHANGED <<PERSON_COUNTER, ORG_COUNTER, GEO_COUNTER, ADDRESS_COUNTER, inv, stale>>

NextChunk == Chunk

SpecChunk == InitChunk /\ [][NextChunk]_vars

(***************************************************************************)
(* Notions the properties are stated in.                                   *)
(***************************************************************************)
Done(p) == inv[p].pc = "done"
Succeeded(p) == Done(p) /\ inv[p].result.success

\* no invocation mints more placeholders than its document has words
MaxNumber == 2 * (MaxWords + MaxConcWords)
NumberedTags == {"LITSO", "ORG", "GEO", "ADRES"}
NumberedOf(tag) == { Numbered(tag, n) : n \in 1..MaxNumber }
NumberOf(tag, ph) == CHOOSE n \in 1..MaxNumber : Numbered(tag, n) = ph

\* the surface forms a replacements dict maps to placeholders of the tag
SurfacesOf(d, tag) == { d[i][1] : i \in { j \in 1..Len(d) : d[j][2] \in NumberedOf(tag) } }
PlaceholdersOf(d, tag) == { d[i][2] : i \in 1..Len(d) } \cap NumberedOf(tag)

\* what the invocation of thread p returns when nothing runs beside it and
\* the module is as imported, the statistical model behaving as it did
Alone(p) ==
  preprocess_with_ner(inv[p].text, ZeroCounters, inv[p].spacy_ok, inv[p].doc_ents).result

\* the labels the code turns into placeholders of the tag
LabelsOf(tag) ==
  CASE tag = "LITSO" -> {"PER", "PERSON"}
    [] tag = "ORG" -> {"ORG"}
    [] tag = "GEO" -> {"LOC", "GPE"}

\* index of the first entity of doc.ents with the given text and a label of
\* the tag
FirstEnt(ents, x, tag) ==
  LET hits == { i \in 1..Len(ents) :
                  Strip(ents[i].text) = x /\ ents[i].label_ \in LabelsOf(tag) }
  IN CHOOSE i \in hits : \A j \in hits : i <= j
\* index of the first occurrence of lit in t
FirstOccurrence(t, lit) == CHOOSE i \in 1..Len(t) : /\ OccursAt(t, lit, i)
                                                    /\ \A j \in 1..(i - 1) : ~OccursAt(t, lit, j)

\* the counter of a tag in the stats of a result
StatOf(stats, tag) ==
  CASE tag = "LITSO" -> stats.persons
    [] tag = "ORG" -> stats.organizations
    [] tag = "GEO" -> stats.locations
    [] tag = "ADRES" -> stats.addresses

(***************************************************************************)
(* C1.  When two invocations of preprocess_with_ner run concurrently, each *)
(* returns the placeholder numbering and the stats it returns when it runs *)
(* alone.  The code keeps the counters in module globals, and TLC finds an *)
(* interleaving in which one invocation resets or advances the counters    *)
(* the other is using.                                                     *)
(***************************************************************************)
C1_ConcurrentRunsIndependent ==
  \A p \in Threads : Done(p) => inv[p].result = Alone(p)

(***************************************************************************)
(* C2.  Within one run, the mapping from surface form to placeholder is a  *)
(* function that is injective on the numbered categories, and no second    *)
(* placeholder is minted for a surface form already registered: each       *)
(* category's counter equals the number of surface forms the mapping sends *)
(* to that category.                                                       *)
(***************************************************************************)
C2_MappingInjective ==
  Succeeded(1) =>
    LET d == inv[1].result.replacements
        stats == inv[1].result.stats[1]
    IN /\ \A i, j \in 1..Len(d) : i # j => d[i][1] # d[j][1]
       /\ \A i, j \in 1..Len(d) :
            (i # j /\ \E tag \in NumberedTags : d[i][2] \in NumberedOf(tag))
              => d[i][2] # d[j][2]
       /\ \A e \in 1..Len(inv[1].doc_ents) :
            LET x == Strip(inv[1].doc_ents[e].text)
            IN DictHas(inv[1].ner_replacements, x)
                 => DictGet(d, x) = DictGet(inv[1].entity_map, x)
       /\ \A tag \in NumberedTags :
            StatOf(stats, tag) = Cardinality(SurfacesOf(d, tag))

\* a run in which a registered surface form was tagged twice and an address
\* literal was matched
C2_Witness ==
  /\ Succeeded(1)
  /\ \E i, j \in 1..Len(inv[1].doc_ents) :
       /\ i < j
       /\ inv[1].doc_ents[i].text = inv[1].doc_ents[j].text
       /\ DictHas(inv[1].result.replacements, inv[1].doc_ents[i].text)
  /\ inv[1].result.stats[1].addresses = 1

(***************************************************************************)
(* C3.  The claim: in every numbered category the surface forms are        *)
(* numbered in the order of their first occurrence in the document text.   *)
(* For a tagged category the first occurrence is the first entity of       *)
(* doc.ents with that text and category; for an address it is the first    *)
(* place in the text where the literal stands.                             *)
(***************************************************************************)
EntityOrder(p, tag) ==
  \A x, y \in SurfacesOf(inv[p].ner_replacements, tag) :
    FirstEnt(inv[p].doc_ents, x, tag) < FirstEnt(inv[p].doc_ents, y, tag)
      => NumberOf(tag, DictGet(inv[p].ner_replacements, x))
           < NumberOf(tag, DictGet(inv[p].ner_replacements, y))

ConsecutiveFromOne(p, tag) ==
  PlaceholdersOf(inv[p].result.replacements, tag)
    = { Numbered(tag, n) : n \in 1..Cardinality(SurfacesOf(inv[p].result.replacements, tag)) }

PatternOf(lit) == CHOOSE k \in 1..NumAddressPatterns : AddressMatchLen(k, lit, 1) = Len(lit)

C4_EveryCallStartsAtZero ==
  /\ inv[1].pc = "regex" => Globals = ZeroCounters
  /\ Done(1) => inv[1].result = Alone(1)

\* a call that found counters left over by an earlier call, after its
\* reset_counters()
C4_Witness ==
  /\ inv[1].pc = "regex"
  /\ stale
  /\ Globals = ZeroCounters
  /\ AddressFind(1, inv[1].text) # <<>>

(***************************************************************************)
(* C5.  The counters are independent: in every run the persons are         *)
(* numbered exactly 1..p, the organizations exactly 1..o, the locations    *)
(* exactly 1..g and the addresses exactly 1..a, where p, o, g and a are    *)
(* the numbers of distinct surface forms the document has in each          *)
(* category, in whatever order their mentions are interleaved.             *)
(***************************************************************************)
\* the entity is one the code registers when its text is new
Registrable(ent) ==
  \/ ent.label_ \in LabelsOf("LITSO") \cup LabelsOf("ORG")
  \/ /\ ent.label_ \in LabelsOf("GEO")
     /\ StrLen(Strip(ent.text)) > 3
     /\ LowerStr(Strip(ent.text)) \notin GeoStoplist

\* the distinct surface forms of the tag in the document of thread p
DocSurfaces(p, tag) ==
  IF tag = "ADRES"
  THEN UNION { { m[i] : i \in 1..Len(m) } :
                 m \in { AddressFind(k, inv[p].text) : k \in 1..NumAddressPatterns } }
  ELSE LET ents == inv[p].doc_ents
           first(i) == /\ Registrable(ents[i])
                       /\ \A j \in 1..(i - 1) :
                            Strip(ents[j].text) = Strip(ents[i].text)
                              => ~Registrable(ents[j])
       IN { Strip(ents[i].text) :
              i \in { j \in 1..Len(ents) : first(j) /\ ents[j].label_ \in LabelsOf(tag) } }

C5_CountersIndependent ==
  Succeeded(1) =>
    \A tag \in NumberedTags :
      /\ PlaceholdersOf(inv[1].result.replacements, tag)
           = { Numbered(tag, n) : n \in 1..Cardinality(DocSurfaces(1, tag)) }
      /\ StatOf(inv[1].result.stats[1], tag) = Cardinality(DocSurfaces(1, tag))

\* a run with an organization mentioned between two persons
C5_Witness ==
  /\ Succeeded(1)
  /\ Len(inv[1].doc_ents) = 3
  /\ inv[1].doc_ents[1].label_ = "PER"
  /\ inv[1].doc_ents[2].label_ = "ORG"
  /\ inv[1].doc_ents[3].label_ = "PER"
  /\ inv[1].result.stats[1].persons = 2
  /\ inv[1].result.stats[1].organizations = 1

(***************************************************************************)
(* C6.  After the entity stage every occurrence of each registered surface *)
(* form stands replaced by that surface form's own placeholder: no         *)
(* registered surface form is left in the text between word boundaries,    *)
(* and the placeholder of every registered surface form, which was tagged  *)
(* at least once, stands in the text.  The code substitutes the surface    *)
(* forms one after another on the text as rewritten so far, so a form      *)
(* registered first is replaced inside a longer form registered later.     *)
(***************************************************************************)
OccursAsWord(t, lit) ==
  \E i \in 1..Len(t) :
    OccursAt(t, lit, i) /\ WordBoundary(t, i) /\ WordBoundary(t, i + Len(lit))

C6_EveryOccurrenceReplaced ==
  Succeeded(1) =>
    LET out == inv[1].result.preprocessed_text[1]
        d == inv[1].ner_replacements
    IN \A i \in 1..Len(d) :
         /\ ~OccursAsWord(out, d[i][1])
         /\ \E k \in 1..Len(out) : out[k] = d[i][2]

\* the call of the orchestrator has returned, having sent requests
Returned == job.pc = "returned"
Rewritten == Returned /\ job.sent # <<>>

\* the orchestrator gets to the rewriter: the local backend, or the remote
\* one with its credentials
ReachesRewriter == Returned /\ (job.provider = "ollama" \/ job.has_credentials)

\* what the pattern recognizer makes of the document of the call
PatternCleaned == replace_with_regex(job.text, ZeroCounters).cleaned_text

\* the template a prompt was built from, and the text it carries
TemplateOf(prompt) == <<Head(prompt), "{text}">>
TextOf(prompt) == Tail(prompt)

(***************************************************************************)
(* C7.  With statistical recognition disabled, the text handed to the      *)
(* rewriter is the pattern-cleaned text.  The code hands over the raw      *)
(* input: its else branch never calls the pattern recognizer.              *)
(***************************************************************************)
C7_DisabledNerSendsPatternCleanedText ==
  (Rewritten /\ ~job.use_ner) => job.preprocessed_text = PatternCleaned

(***************************************************************************)
(* C8.  When the statistical model cannot be loaded, the orchestrator      *)
(* still gets to the rewriter, and the text it hands over is the           *)
(* pattern-cleaned text.  The code hands over the raw input: the failed    *)
(* preprocess_with_ner returns no text, and the fallback takes the         *)
(* original.                                                               *)
(***************************************************************************)
C8_FallbackSendsPatternCleanedText ==
  (ReachesRewriter /\ job.use_ner /\ ~job.spacy_ok) =>
    /\ job.sent # <<>>
    /\ job.preprocessed_text = PatternCleaned

(***************************************************************************)
(* C9.  Every prompt sent to a backend, local or remote, is built from     *)
(* LLM_FINALIZATION_PROMPT when statistical recognition is enabled and     *)
(* from CLEANING_PROMPT when it is disabled.  The local backend builds its *)
(* prompt from CLEANING_PROMPT whatever the option.                        *)
(***************************************************************************)
C9_TemplateIndependentOfBackend ==
  Returned =>
    \A i \in 1..Len(job.sent) :
      TemplateOf(job.sent[i].prompt)
        = IF job.use_ner THEN LLM_FINALIZATION_PROMPT ELSE CLEANING_PROMPT

(***************************************************************************)
(* C10.  Whenever the preprocessed text is longer than the threshold of    *)
(* the provider, the requests sent are the chunks of the text, one request *)
(* per chunk in order, all of them unless one fails.  The remote branch of *)
(* the orchestrator sends the whole text in one request.                   *)
(***************************************************************************)
ThresholdOf(provider) == IF provider = "ollama" THEN OllamaThreshold ELSE CloudThreshold

C10_LongTextSentInChunks ==
  (ReachesRewriter /\ StrLen(job.preprocessed_text) > ThresholdOf(job.provider)) =>
    LET chunks == chunk_text(job.preprocessed_text, ThresholdOf(job.provider))
    IN /\ Len(chunks) >= 2
       /\ Len(job.sent) <= Len(chunks)
       /\ job.result.success => Len(job.sent) = Len(chunks)
       /\ \A i \in 1..Len(job.sent) : TextOf(job.sent[i].prompt) = chunks[i]

(***************************************************************************)
(* Notions of the rewriter's properties: job is a call of                  *)
(* clean_text_with_llm.                                                    *)
(***************************************************************************)
\* a reply that makes the call it answers fail: the backend is not reached,
\* does not answer in time, answers with an error status or with no text
FailedReply(reply) == reply.kind # "response" \/ reply.text = <<>>

\* the document went to the backend in two chunks or more
Chunked == Returned /\ job.sent # <<>> /\ Len(job.chunks) >= 2

\* the rewrite of chunk i failed
ChunkFailed(i) == i = Len(job.replies) /\ FailedReply(job.replies[i])

(***************************************************************************)
(* C11.  When the rewrite of one chunk of a chunked document fails, the    *)
(* call returns a failure whose cleaned_text is None, whichever chunk it   *)
(* is; the cleaned text of the chunks before it is not returned.           *)
(***************************************************************************)
C11_ChunkFailureFailsDocument ==
  (Chunked /\ \E i \in 1..Len(job.chunks) : ChunkFailed(i)) =>
    /\ ~job.result.success
    /\ job.result.cleaned_text = None
    /\ job.result.error # None

\* the remote backend rewrote the first chunk and failed on the second
C11_Witness ==
  /\ Chunked
  /\ job.provider = "cloud"
  /\ ~FailedReply(job.replies[1])
  /\ ChunkFailed(2)
  /\ job.result.cleaned_text = None

(***************************************************************************)
(* Notions of the pipeline's error handling: job is a call of              *)
(* process_pdf_with_llm.                                                   *)
(***************************************************************************)
\* the result is a failure in full
FailureResult(result) ==
  /\ ~result.success
  /\ result.cleaned_text = None
  /\ result.error # None
  /\ result.error[1] # ""

NoTextExtracted == ~job.pdf.readable \/ extract_text_from_bytes(job.pdf).text = <<>>
MissingCredentials == job.provider # "ollama" /\ ~job.has_credentials
RecognitionFailed == ~NoTextExtracted /\ job.use_ner /\ ~job.spacy_ok
\* a request was not answered with a text: no connection, a timeout, an
\* error status, an empty response; for a chunked document, on any chunk
RewriteFailed == job.sent # <<>> /\ FailedReply(job.replies[Len(job.sent)])

(***************************************************************************)
(* C12 as stated.  Whatever stage has failed (extraction, statistical      *)
(* recognition, credentials, the backend on any request), the call returns *)
(* a failure in full.  A failed recognition alone is not a failure of the  *)
(* call: the orchestrator falls back and the rewrite can succeed.          *)
(***************************************************************************)
C12_AnyStageFailureFailsCall ==
  (Returned /\ (NoTextExtracted \/ RecognitionFailed \/ MissingCredentials \/ RewriteFailed)) =>
    /\ FailureResult(job.result)
    /\ job.cleaning # None => FailureResult(job.cleaning[1])

(***************************************************************************)
(* C12.  process_pdf_with_llm and the clean_text_with_ner_and_llm it calls *)
(* always return a result value.  When no text is extracted, the remote    *)
(* credentials are missing, or the backend fails on a request (of any      *)
(* chunk), both results are failures in full: success False, a non-empty   *)
(* error string, cleaned_text None; and no other result has success False. *)
(* The error of the orchestrator is the error the pipeline returns.        *)
(***************************************************************************)
C12_FailuresAreResultValues ==
  Returned =>
    /\ (NoTextExtracted \/ MissingCredentials \/ RewriteFailed) <=> ~job.result.success
    /\ ~job.result.success => FailureResult(job.result)
    /\ NoTextExtracted <=> job.cleaning = None
    /\ job.cleaning # None =>
         /\ job.cleaning[1].success = job.result.success
         /\ job.cleaning[1].error = job.result.error
         /\ ~job.cleaning[1].success => FailureResult(job.cleaning[1])

\* the local backend rewrote the first chunk and timed out on the second,
\* after the statistical model had failed to load
C12_Witness ==
  /\ Returned
  /\ RecognitionFailed
  /\ Len(job.sent) = 2
  /\ job.replies[2].kind = "timeout"
  /\ FailureResult(job.result)
  /\ FailureResult(job.cleaning[1])

(***************************************************************************)
(* Notions of the rewriter's error reporting: job is a call of             *)
(* clean_text_with_llm.                                                    *)
(***************************************************************************)
\* what a reply is for the caller: a text, or one of the failures
KindOf(reply) ==
  IF reply.kind # "response" THEN reply.kind
  ELSE IF reply.text = <<>> THEN "empty" ELSE "text"

\* the three failures the caller has to tell apart
ErrorKinds == {"connection", "timeout", "empty"}

\* the last request of the call failed
LastFailed == Returned /\ job.sent # <<>> /\ FailedReply(job.replies[Len(job.sent)])

\* the result of the call had the backend answered its last request otherwise
ResultHad(reply) ==
  clean_text_with_llm(job.text, job.provider, job.has_credentials,
                      [job.replies EXCEPT ![Len(job.sent)] = reply]).result

Unusable(reply) == reply.kind = "response" /\ Strip(reply.text) = <<>>

EmptyResponseErrors ==
  { Some("Error during text cleaning: Ollama returned empty response"),
    Some("Error during cloud LLM text cleaning: Cloud LLM returned empty response") }

C14_UnusableResponseFails ==
  (Returned /\ job.sent # <<>>) =>
    /\ (\E i \in 1..Len(job.sent) : Unusable(job.replies[i])) =>
         (~job.result.success /\ job.result.error \in EmptyResponseErrors)
    /\ job.result.success => job.result.cleaned_text[1] # <<>>

Long == Returned /\ StrLen(job.text) > job.max_chunk_size

(***************************************************************************)
(* C16.  For a text no longer than max_chunk_size, the empty text and a    *)
(* text of exactly that length included, chunk_text returns the list of    *)
(* the text alone, as it was given.                                        *)
(***************************************************************************)
C16_ShortTextReturnedWhole ==
  (Returned /\ ~Long) => job.chunks = <<job.text>>

\* a text of length max_chunk_size exactly, with whitespace at its ends
C16_Witness ==
  /\ Returned
  /\ StrLen(job.text) = job.max_chunk_size
  /\ Strip(job.text) # job.text
  /\ job.chunks = <<job.text>>

\* the paragraphs of the text: the pieces between blank-line separators
ParagraphsOf(text) == SplitParagraphs(text, <<>>)

\* paragraph j is longer than max_chunk_size
Oversized(j) == StrLen(ParagraphsOf(job.text)[j]) > job.max_chunk_size

(***************************************************************************)
(* C17.  A chunk longer than max_chunk_size is one paragraph that is       *)
(* itself longer than max_chunk_size, and every such paragraph is a chunk  *)
(* of its own: no chunk of two paragraphs or more exceeds max_chunk_size.  *)
(***************************************************************************)
C17_OnlyOversizedParagraphExceeds ==
  Returned =>
    LET paragraphs == ParagraphsOf(job.text)
    IN /\ \A k \in 1..Len(job.chunks) :
            StrLen(job.chunks[k]) > job.max_chunk_size =>
              \E j \in 1..Len(paragraphs) :
                Oversized(j) /\ job.chunks[k] = Strip(paragraphs[j])
       /\ \A j \in 1..Len(paragraphs) :
            Oversized(j) =>
              \E k \in 1..Len(job.chunks) : job.chunks[k] = Strip(paragraphs[j])

\* an oversized paragraph between two paragraphs that are not empty
C17_Witness ==
  /\ Returned
  /\ Len(ParagraphsOf(job.text)) = 3
  /\ Oversized(2)
  /\ ParagraphsOf(job.text)[1] # <<>>
  /\ ParagraphsOf(job.text)[3] # <<>>
  /\ Len(job.chunks) = 3
  /\ StrLen(job.chunks[2]) > job.max_chunk_size

\* the chunks are runs of whole consecutive paragraphs, joined as they were
\* in the text, that together are all the paragraphs, in order
RECURSIVE Covers(_, _)
Covers(chunks, paragraphs) ==
  IF chunks = <<>> THEN paragraphs = <<>>
  ELSE \E n \in 1..Len(paragraphs) :
         /\ Head(chunks) = Join(SubSeq(paragraphs, 1, n))
         /\ Covers(Tail(chunks), SubSeq(paragraphs, n + 1, Len(paragraphs)))

(***************************************************************************)
(* C18.  Every chunk is a run of whole consecutive paragraphs of the text, *)
(* and the chunks in order are all its paragraphs in order, none dropped,  *)
(* repeated or split.  As stated it fails on whitespace: chunk_text strips *)
(* every chunk of a text it splits, so the whitespace at the ends of a     *)
(* chunk is lost, the empty paragraphs there with it.                      *)
(***************************************************************************)
C18_ChunksAreParagraphRuns ==
  Returned => Covers(job.chunks, ParagraphsOf(job.text))

\* as Covers, each run stripped of the whitespace at its ends
RECURSIVE CoversStripped(_, _)
CoversStripped(chunks, paragraphs) ==
  IF chunks = <<>> THEN paragraphs = <<>>
  ELSE \E n \in 1..Len(paragraphs) :
         /\ Head(chunks) = Strip(Join(SubSeq(paragraphs, 1, n)))
         /\ CoversStripped(Tail(chunks), SubSeq(paragraphs, n + 1, Len(paragraphs)))

(***************************************************************************)
(* C18, amended.  The chunks of a text longer than max_chunk_size are runs *)
(* of whole consecutive paragraphs, each run joined as in the text and     *)
(* then stripped of the whitespace at its ends; the runs in order are all  *)
(* the paragraphs in order, each paragraph in one run.  A text that is not *)
(* longer is its own single chunk, unstripped.                             *)
(***************************************************************************)
C18_ChunksAreStrippedParagraphRuns ==
  Returned =>
    IF Long THEN CoversStripped(job.chunks, ParagraphsOf(job.text))
    ELSE Covers(job.chunks, ParagraphsOf(job.text))

\* two paragraphs in the first chunk, and whitespace lost at the end of the
\* second
C18_Witness ==
  /\ Long
  /\ Len(ParagraphsOf(job.text)) = 3
  /\ ParagraphsOf(job.text)[1] # <<>>
  /\ ParagraphsOf(job.text)[2] # <<>>
  /\ Len(job.chunks) = 2
  /\ job.chunks[1] = Join(SubSeq(ParagraphsOf(job.text), 1, 2))
  /\ job.chunks[2] # ParagraphsOf(job.text)[3]

(***************************************************************************)
(* C19 as stated.  A text longer than max_chunk_size comes back in two     *)
(* chunks or more.  A text without a blank line is one paragraph, and      *)
(* comes back in one chunk however long it is.                             *)
(***************************************************************************)
C19_LongTextInTwoChunks ==
  Long => Len(job.chunks) >= 2

(***************************************************************************)
(* C19, amended.  A text longer than max_chunk_size comes back in two      *)
(* chunks or more exactly when it has a blank-line separator, and in as    *)
(* many chunks as it has paragraphs at most; a text of one paragraph comes *)
(* back as the one chunk of the text stripped.                             *)
(***************************************************************************)
C19_LongTextOfParagraphsInTwoChunks ==
  Long =>
    /\ Len(job.chunks) >= 2 <=> Len(ParagraphsOf(job.text)) >= 2
    /\ Len(job.chunks) <= Len(ParagraphsOf(job.text))
    /\ Len(ParagraphsOf(job.text)) = 1 => job.chunks = <<Strip(job.text)>>

\* three paragraphs that fit two by two but not all three
C19_Witness ==
  /\ Long
  /\ Len(ParagraphsOf(job.text)) = 3
  /\ \A j \in 1..3 : ParagraphsOf(job.text)[j] # <<>>
  /\ StrLen(Join(SubSeq(ParagraphsOf(job.text), 1, 2))) <= job.max_chunk_size
  /\ StrLen(Join(SubSeq(ParagraphsOf(job.text), 2, 3))) <= job.max_chunk_size
  /\ Len(job.chunks) = 2

\* the sum of the lengths of the chunks
RECURSIVE TotalLen(_)
TotalLen(chunks) ==
  IF chunks = <<>> THEN 0 ELSE StrLen(Head(chunks)) + TotalLen(Tail(chunks))

\* the length of the "\n\n" separators between the chunks
SeparatorsLen(chunks) == 2 * (Len(chunks) - 1)

\* the chunks one after another
RECURSIVE Concat(_)
Concat(chunks) ==
  IF chunks = <<>> THEN <<>> ELSE Head(chunks) \o Concat(Tail(chunks))

\* the text without its whitespace
IsInk(s) == s \notin WhiteSyms
Ink(t) == SelectSeq(t, IsInk)

\* no paragraph of the text is empty or has whitespace at its ends
Trimmed(text) ==
  \A j \in 1..Len(ParagraphsOf(text)) :
    /\ ParagraphsOf(text)[j] # <<>>
    /\ Strip(ParagraphsOf(text)[j]) = ParagraphsOf(text)[j]

(***************************************************************************)
(* C20 as stated.  For a text longer than max_chunk_size, the lengths of   *)
(* the chunks add up to the length of the text less the separators between *)
(* the chunks: nothing else is removed.  chunk_text strips every chunk, so *)
(* the whitespace at the ends of a chunk is removed too.                   *)
(***************************************************************************)
C20_ChunkLengthsAddUp ==
  Long => TotalLen(job.chunks) + SeparatorsLen(job.chunks) = StrLen(job.text)

(***************************************************************************)
(* C20, amended.  For a text longer than max_chunk_size, the lengths of    *)
(* the chunks and of the separators between them add up to the length of   *)
(* the text at most, and to exactly that length when no paragraph is empty *)
(* or has whitespace at its ends; what is removed is whitespace: the       *)
(* characters that are not whitespace are all kept, in order.              *)
(***************************************************************************)
C20_ChunkLengthsAddUpButWhitespace ==
  Long =>
    /\ TotalLen(job.chunks) + SeparatorsLen(job.chunks) <= StrLen(job.text)
    /\ Ink(Concat(job.chunks)) = Ink(job.text)
    /\ Trimmed(job.text) =>
         TotalLen(job.chunks) + SeparatorsLen(job.chunks) = StrLen(job.text)

\* two chunks that are not empty, and whitespace lost between them
C20_Witness ==
  /\ Long
  /\ Len(job.chunks) = 2
  /\ job.chunks[1] # <<>>
  /\ job.chunks[2] # <<>>
  /\ TotalLen(job.chunks) + SeparatorsLen(job.chunks) < StrLen(job.text)

(***************************************************************************)
(* Notions of the aggregation: job is a call of clean_text_with_llm.       *)
(***************************************************************************)
\* the cleaned text of chunk i: what the backend answered, stripped
CleanedChunk(i) == Strip(job.replies[i].text)
CleanedChunks == [i \in 1..Len(job.chunks) |-> CleanedChunk(i)]

(***************************************************************************)
(* C21.  When every chunk of a chunked document is rewritten, cleaned_text *)
(* is the cleaned texts of the chunks joined with a blank line in the      *)
(* order of the chunks, original_length is the sum of the lengths of the   *)
(* chunks, and cleaned_length the sum of the lengths of their cleaned      *)
(* texts.                                                                  *)
(***************************************************************************)
C21_AggregateJoinsAndSums ==
  (Chunked /\ job.result.success) =>
    /\ Len(job.sent) = Len(job.chunks)
    /\ job.result.cleaned_text = Some(Join(CleanedChunks))
    /\ job.result.original_length = TotalLen(job.chunks)
    /\ job.result.cleaned_length = TotalLen(CleanedChunks)

\* three chunks rewritten by the local backend, the first two differently
C21_Witness ==
  /\ Chunked
  /\ job.result.success
  /\ job.provider = "ollama"
  /\ Len(job.chunks) = 3
  /\ CleanedChunk(1) # CleanedChunk(2)

(***************************************************************************)
(* Notions of the pipeline's report: job is a call of process_pdf_with_llm *)
(* and job.cleaning the result of the clean_text_with_ner_and_llm it made. *)
(***************************************************************************)
\* the result dict has the key, with the value
Reports(result, key, value) == key \in DOMAIN result /\ result[key] = value

(***************************************************************************)
(* C22.  With statistical recognition disabled, every result reports       *)
(* pipeline_used "LLM Only": the result of process_pdf_with_llm and the    *)
(* result of clean_text_with_ner_and_llm.  The failure results of          *)
(* clean_text_with_ner_and_llm have no pipeline_used, and those of         *)
(* process_pdf_with_llm have "LLM only" or none.                           *)
(***************************************************************************)
C22_DisabledNerReportsLlmOnly ==
  (Returned /\ ~job.use_ner) =>
    /\ Reports(job.result, "pipeline_used", "LLM Only")
    /\ job.cleaning # None => Reports(job.cleaning[1], "pipeline_used", "LLM Only")

(***************************************************************************)
(* C23.  When the rewriter was sent the document in more than one chunk    *)
(* and rewrote them all, the results of clean_text_with_ner_and_llm and of *)
(* process_pdf_with_llm report the number of chunks as chunks_processed.   *)
(* clean_text_with_ner_and_llm does not copy chunks_processed from the     *)
(* result of the chunked rewriter, so neither result has it.               *)
(***************************************************************************)
C23_ChunkCountReported ==
  (Returned /\ Len(job.sent) >= 2 /\ job.result.success) =>
    /\ Reports(job.cleaning[1], "chunks_processed", Len(job.sent))
    /\ Reports(job.result, "chunks_processed", Len(job.sent))

(***************************************************************************)
(* Notions of the pattern stage: job is a call of replace_with_regex.      *)
(***************************************************************************)
\* what the call returns when the module is as imported
FirstCall(text) == replace_with_regex(text, ZeroCounters)

(***************************************************************************)
(* C24.  replace_with_regex changes nothing but what it returns: the       *)
(* globals are after the call what they were before it, and a call on a    *)
(* text returns what the first call on that text returns.  The address     *)
(* pass increments ADDRESS_COUNTER for every address literal it registers, *)
(* and the next call numbers its addresses from there.                     *)
(***************************************************************************)
C24_NoEffectBeyondReturn ==
  Returned =>
    /\ Globals = job.globals_before
    /\ job.cleaned_text = FirstCall(job.text).cleaned_text
    /\ job.replacements = FirstCall(job.text).replacements

\* the places of the text where a symbol of the set stands
PlacesOf(t, S) == { i \in 1..Len(t) : t[i] \in S }

ScenarioText == Render(<<"+7-701-234-56-78", "ul.Lenina,d.5", KvSym, "1", "0">>)

(***************************************************************************)
(* C26.  In the end-to-end scenario, with the counters as imported, the    *)
(* pattern stage replaces the phone by the phone placeholder and the whole *)
(* address by the single placeholder [ADRES-1], and the address counter is *)
(* 1 afterwards.                                                           *)
(***************************************************************************)
C26_ScenarioOneAddress ==
  (Returned /\ job.text = ScenarioText /\ job.globals_before = ZeroCounters) =>
    /\ job.cleaned_text = <<"[TELEFON]", BLANK, Numbered("ADRES", 1)>>
    /\ ADDRESS_COUNTER = 1

\* the address numbers that appear in a text
AddressNumbersIn(t) ==
  { n \in 1..MaxNumber : \E i \in 1..Len(t) : t[i] = Numbered("ADRES", n) }

\* the address literals registered by the call
AddressLiterals(d) ==
  { d[i][1] : i \in { j \in 1..Len(d) : d[j][2] \in NumberedOf("ADRES") } }

\* the literal occurs somewhere in the text
OccursIn(t, lit) == \E i \in 1..Len(t) : OccursAt(t, lit, i)

(***************************************************************************)
(* C27.  After replace_with_regex every address literal matched has been   *)
(* replaced everywhere by its own placeholder: the address numbers in the  *)
(* text returned are exactly those handed out by the call, 1 up to         *)
(* ADDRESS_COUNTER when the counters were as imported, and no registered   *)
(* literal is left in the text, also when one literal is a prefix of       *)
(* another.                                                                *)
(***************************************************************************)
C27_AddressNumbersExact ==
  Returned =>
    /\ AddressNumbersIn(job.cleaned_text)
         = (job.globals_before.ADDRESS_COUNTER + 1)..ADDRESS_COUNTER
    /\ \A lit \in AddressLiterals(job.replacements) :
         ~OccursIn(job.cleaned_text, lit)

(***************************************************************************)
(* C28.  A result of clean_text_with_ner_and_llm reports the pipeline      *)
(* "NER + LLM" only if the NER preprocessing was asked for and succeeded   *)
(* in that invocation; after a fallback to direct cleaning the result does *)
(* not say that the NER stage ran.                                         *)
(***************************************************************************)
C28_NerReportedOnlyIfRan ==
  (Returned /\ Reports(job.result, "pipeline_used", "NER + LLM")) =>
    (job.use_ner /\ job.spacy_ok)

(***************************************************************************)
(* C29.  chunk_text returns no empty chunk when the text is longer than    *)
(* max_chunk_size, whatever the text: consecutive separators and a leading *)
(* or trailing separator included.                                         *)
(***************************************************************************)
C29_NoEmptyChunk ==
  (Returned /\ Long) => \A k \in 1..Len(job.chunks) : job.chunks[k] # <<>>

(***************************************************************************)
(* C30.  Every successful result of clean_text_with_llm, of one piece or   *)
(* of several chunks, reports as cleaned_length the length of the          *)
(* cleaned_text it returns.                                                *)
(***************************************************************************)
C30_CleanedLengthIsLength ==
  (Returned /\ job.result.success) =>
    job.result.cleaned_length = StrLen(job.result.cleaned_text[1])

====
